---- MODULE Spec2Model ----
(***************************************************************************)
(* A model of editorconfig-core-c's two engines: the INI line parser with  *)
(* its file cache (src/lib/ini.c) and the glob matcher with its pattern    *)
(* cache (src/lib/ec_glob.c).                                              *)
(*                                                                         *)
(* A C string is a sequence of one-character strings, without its          *)
(* terminating zero; a pointer into it is a 1-based index, and the index   *)
(* Len(s) + 1 is the position of the terminating zero.                     *)
(***************************************************************************)
EXTENDS Integers, Sequences, FiniteSets, TLC

VARIABLES
    \* ini_parse_file: the text, the locals of the line loop, the handler calls made
    file, p, lineno, error, section, prev_name, calls, ipc,
    \* ec_glob_cached_pattern's _map: pattern text -> (serialized code, nums)
    glob_map,
    \* ec_glob: for each thread, the arguments and locals of its call
    gl,
    \* history: the pcre2_compile calls ec_glob has made on translations, in order
    compile_log,
    \* the file system: for each filename, whether the file exists and its bytes
    disk,
    \* ini_data_for_file's _map: filename -> CacheEntry pointer (0 is NULL)
    file_map,
    \* the CacheEntry objects created so far, by pointer; live until deleted
    entries,
    \* the entries whose dispatch source holds an undelivered event
    pending,
    \* ini_parse: for each thread, the arguments and locals of its call
    ip,
    \* history: for each filename, a finished call read it from disk in full and no
    \* change of the file has happened since
    fresh,
    \* ini_data_for_file's _mutex: the thread that holds it and how many times
    mutex,
    \* the event handler in progress: its position and the entry it was created for
    hd,
    \* ini_parse_cache_invalidated is set (a callback is registered)
    callback,
    \* history: the filenames the callback has been called with, in order
    invalidated

iniVars == <<file, p, lineno, error, section, prev_name, calls, ipc>>

globVars == <<glob_map, gl, compile_log>>

fileVars == <<disk, file_map, entries, pending, ip, fresh, mutex, hd, callback, invalidated>>

vars ==
    <<file, p, lineno, error, section, prev_name, calls, ipc, glob_map, gl, compile_log,
      disk, file_map, entries, pending, ip, fresh, mutex, hd, callback, invalidated>>

----------------------------------------------------------------------------
(* The two engines at rest *)

\* A null pointer to serialized code or to a nums array.
NULL == <<>>

Threads == {"t1", "t2"}

MainThread == "t1"

\* The arguments and locals of a thread's ec_glob call.  cached tells whether the
\* fetch found code; returned is FALSE from the entry of a call to its return.
Local(pc, pattern, string, re, nums, ret, cached, returned) ==
    [pc |-> pc, pattern |-> pattern, string |-> string, re |-> re, nums |-> nums,
     ret |-> ret, cached |-> cached, returned |-> returned]

\* The state of the INI parser while the glob matcher is exercised, and of the
\* glob matcher while the parser is.
IniIdle ==
    /\ file = <<>> /\ p = 1 /\ lineno = 0 /\ error = 0
    /\ section = <<>> /\ prev_name = <<>> /\ calls = <<>> /\ ipc = "done"

EmptyMap == [k \in {} |-> NULL]

GlobIdle ==
    /\ glob_map = EmptyMap
    /\ gl = [t \in Threads |-> Local("idle", <<>>, <<>>, NULL, NULL, 0, FALSE, FALSE)]
    /\ compile_log = <<>>

Filenames == {"f"}

\* The dispatch queue thread that runs the event handler in progress.
HandlerThread == "h"

\* The threads that can be inside ini_parse: the callers, and the handler's thread
\* when the invalidation callback calls back into the cache.
Callers == Threads \cup {HandlerThread}

\* The arguments and locals of a thread's ini_parse call.  entry is the pointer
\* the fetch read from the map.  readFull, dirty and ncalls are history: the call
\* read the whole file from disk; the file changed during the call; the number of
\* handler calls ini_parse_file made.
IniLocal(pc, filename, entry, data, wasCached, ret, readFull, dirty, ncalls) ==
    [pc |-> pc, filename |-> filename, entry |-> entry, data |-> data,
     wasCached |-> wasCached, ret |-> ret, readFull |-> readFull, dirty |-> dirty,
     ncalls |-> ncalls]

\* The mutex held by nobody.
Unlocked == [owner |-> "", count |-> 0]

\* No event handler is running.
NoHandler == [pc |-> "idle", e |-> 0]

NoFile == [exists |-> FALSE, bytes |-> <<>>]

FileIdle ==
    /\ disk = [f \in Filenames |-> NoFile]
    /\ file_map = [f \in {} |-> 0]
    /\ entries = <<>>
    /\ pending = {}
    /\ ip = [t \in Callers |->
                IniLocal("idle", "f", 0, <<>>, FALSE, 0, FALSE, FALSE, 0)]
    /\ fresh = [f \in Filenames |-> FALSE]
    /\ mutex = Unlocked
    /\ hd = NoHandler
    /\ callback = FALSE
    /\ invalidated = <<>>

----------------------------------------------------------------------------
(* Text helpers *)

\* The characters of a string literal, one per element.
Str(s) == [i \in 1..Len(s) |-> SubSeq(s, i, i)]

\* s from index i to its end (the C pointer s + (i - 1)).
From(s, i) == SubSeq(s, i, Len(s))

\* The first n characters of s.
Take(s, n) == SubSeq(s, 1, IF n < Len(s) THEN n ELSE Len(s))

\* *s for a pointer i into s: "" stands for the terminating zero.
At(s, i) == IF i >= 1 /\ i <= Len(s) THEN s[i] ELSE ""

\* All sequences over S of length at most n.
SeqsUpTo(S, n) == UNION {[1..k -> S] : k \in 0..n}

RECURSIVE Join(_)
\* Lines joined by line feeds.
Join(ls) ==
    IF Len(ls) = 0 THEN <<>>
    ELSE IF Len(ls) = 1 THEN ls[1]
    ELSE ls[1] \o <<"\n">> \o Join(Tail(ls))

isspace(c) == c \in {" ", "\t", "\n", "\r"}

----------------------------------------------------------------------------
(* ini.c: constants.  The three maxima come from ini.h and are scaled down *)
(* so that over-long names occur in short texts.                           *)

MAX_LINE == 5000

MAX_SECTION_NAME == 2

MAX_PROPERTY_NAME == 2

MAX_PROPERTY_VALUE == 2

MAX_SECTION == MAX_SECTION_NAME

MAX_NAME == MAX_PROPERTY_NAME

\* ini.h compiles the continuation-line branch out.
INI_ALLOW_MULTILINE == FALSE

\* lineno is a fixed-width int: it is kept modulo LinenoMod.
LinenoMod == 8

----------------------------------------------------------------------------
(* ini.c: string helpers *)

\* A slip in rstrip: only the last whitespace character is removed.
rstrip_once(s) ==
    IF Len(s) > 0 /\ isspace(s[Len(s)]) THEN SubSeq(s, 1, Len(s) - 1) ELSE s

RECURSIVE rstrip(_)
rstrip(s) ==
    IF Len(s) > 0 /\ isspace(s[Len(s)]) THEN rstrip(SubSeq(s, 1, Len(s) - 1))
    ELSE s

RECURSIVE lskipIdx(_, _)
\* The index lskip stops at when it starts at i.
lskipIdx(s, i) ==
    IF i <= Len(s) /\ isspace(s[i]) THEN lskipIdx(s, i + 1) ELSE i

lskip(s) == From(s, lskipIdx(s, 1))

RECURSIVE FindFrom(_, _, _, _)
\* The loop of find_char_or_comment at index i; c = "" is the search for '\0'.
FindFrom(s, c, i, was_whitespace) ==
    IF i <= Len(s) /\ s[i] # c /\ ~(was_whitespace /\ s[i] \in {";", "#"})
    THEN FindFrom(s, c, i + 1, isspace(s[i]))
    ELSE i

find_char_or_comment(s, c) == FindFrom(s, c, 1, FALSE)

RECURSIVE FindLastFrom(_, _, _, _, _)
FindLastFrom(s, c, i, was_whitespace, last_char) ==
    IF i <= Len(s) /\ ~(was_whitespace /\ s[i] \in {";", "#"})
    THEN FindLastFrom(s, c, i + 1, isspace(s[i]), IF s[i] = c THEN i ELSE last_char)
    ELSE last_char

find_last_char_or_comment(s, c) == FindLastFrom(s, c, 1, FALSE, 1)

\* strncpy followed by dest[size - 1] = 0: at most size - 1 characters are kept.
strncpy0(src, size) == Take(src, size - 1)

----------------------------------------------------------------------------
(* ini.c: ini_parse_file *)

RECURSIVE strchr(_, _, _)
\* strchr(s + (i - 1), c) as an index, 0 for NULL.
strchr(s, i, c) ==
    IF i > Len(s) THEN 0
    ELSE IF s[i] = c THEN i
    ELSE strchr(s, i + 1, c)

\* The copy of the line at p into line[MAX_LINE] (snprintf truncates it).
LineAt(f, i) ==
    LET nextLine == strchr(f, i, "\n")
    IN  IF nextLine = i THEN <<>>
        ELSE IF nextLine # 0 THEN Take(SubSeq(f, i, nextLine - 1), MAX_LINE - 1)
        ELSE Take(From(f, i), MAX_LINE - 1)

\* What one pass of the loop body leaves: cont is TRUE when the pass ended in
\* 'continue', call holds the handler call made (at most one).
Pass(cont, sec, prev, err, call) ==
    [cont |-> cont, section |-> sec, prev_name |-> prev, error |-> err, call |-> call]

\* The record of a handler call and its effect on error.
Call(ln, sec, name, value, ok) ==
    <<[line |-> ln, section |-> sec, name |-> name, value |-> value, ok |-> ok]>>

\* A slip in the error bookkeeping: the "&& !error" test is dropped.
ErrorAfter_overwrite(err, ln, failed) == IF failed THEN ln ELSE err

ErrorAfter(err, ln, failed) == IF failed /\ err = 0 THEN ln ELSE err

\* A slip in the skip of an over-long section name: the name is copied and
\* prev_name cleared before the length test.
SectionLine_copy_first(start, ln, sec, prev, err) ==
    LET rest == Tail(start)
        end  == find_last_char_or_comment(rest, "]")
    IN  IF At(rest, end) = "]"
        THEN Pass(end - 1 > MAX_SECTION_NAME,
                  strncpy0(SubSeq(rest, 1, end - 1), MAX_SECTION + 1), <<>>, err, <<>>)
        ELSE Pass(FALSE, sec, prev, ErrorAfter(err, ln, TRUE), <<>>)

\* A "[section]" line: start begins with '['.
SectionLine(start, ln, sec, prev, err) ==
    LET rest == Tail(start)
        end  == find_last_char_or_comment(rest, "]")
    IN  IF At(rest, end) = "]"
        THEN IF end - 1 > MAX_SECTION_NAME
             THEN Pass(TRUE, sec, prev, err, <<>>)
             ELSE Pass(FALSE, strncpy0(SubSeq(rest, 1, end - 1), MAX_SECTION + 1),
                       <<>>, err, <<>>)
        ELSE Pass(FALSE, sec, prev, ErrorAfter(err, ln, TRUE), <<>>)

\* A name[=:]value line.
PairLine(start, ln, sec, prev, err, ok) ==
    LET e1   == find_char_or_comment(start, "=")
        end  == IF At(start, e1) # "=" THEN find_char_or_comment(start, ":") ELSE e1
    IN  IF At(start, end) \in {"=", ":"}
        THEN LET name  == rstrip(SubSeq(start, 1, end - 1))
                 v0    == lskip(From(start, end + 1))
                 e2    == find_char_or_comment(v0, "")
                 v1    == IF At(v0, e2) \in {";", "#"} THEN SubSeq(v0, 1, e2 - 1) ELSE v0
                 value == rstrip(v1)
             IN  IF Len(name) > MAX_PROPERTY_NAME \/ Len(value) > MAX_PROPERTY_VALUE
                 THEN Pass(TRUE, sec, prev, err, <<>>)
                 ELSE Pass(FALSE, sec, strncpy0(name, MAX_NAME + 1),
                           ErrorAfter(err, ln, ~ok), Call(ln, sec, name, value, ok))
        ELSE Pass(FALSE, sec, prev, ErrorAfter(err, ln, TRUE), <<>>)

\* The body of the line loop for the copied line; ok is the handler's answer.
ProcessLine(line, ln, sec, prev, err, ok) ==
    LET stripped == rstrip(line)
        off      == lskipIdx(stripped, 1)
        start    == From(stripped, off)
    IN  IF At(start, 1) \in {";", "#"} THEN Pass(FALSE, sec, prev, err, <<>>)
        ELSE IF INI_ALLOW_MULTILINE /\ prev # <<>> /\ start # <<>> /\ off > 1
        THEN Pass(FALSE, sec, prev, ErrorAfter(err, ln, ~ok),
                  Call(ln, sec, prev, start, ok))
        ELSE IF At(start, 1) = "[" THEN SectionLine(start, ln, sec, prev, err)
        ELSE IF start # <<>> THEN PairLine(start, ln, sec, prev, err, ok)
        ELSE Pass(FALSE, sec, prev, err, <<>>)

\* lineno++ on a fixed-width int.
NextLineno(ln) == (ln + 1) % LinenoMod

\* One pass of "while (0 != *p)": copy the line, classify it, call the handler,
\* then 'continue', 'break' or step to the next line.
IniParseLine ==
    /\ ipc = "loop"
    /\ p <= Len(file)
    /\ \E ok \in BOOLEAN :
         LET nextLine == strchr(file, p, "\n")
             ln       == NextLineno(lineno)
             r        == ProcessLine(LineAt(file, p), ln, section, prev_name, error, ok)
         IN  /\ lineno' = ln
             /\ section' = r.section
             /\ prev_name' = r.prev_name
             /\ error' = r.error
             /\ calls' = calls \o r.call
             /\ p' = IF r.cont \/ nextLine = 0 THEN p ELSE nextLine + 1
             /\ ipc' = IF ~r.cont /\ nextLine = 0 THEN "done" ELSE "loop"
    /\ UNCHANGED <<file, globVars, fileVars>>

\* The loop condition fails at the terminating zero: return error.
IniReturn ==
    /\ ipc = "loop"
    /\ p > Len(file)
    /\ ipc' = "done"
    /\ UNCHANGED <<file, p, lineno, error, section, prev_name, calls, globVars, fileVars>>

----------------------------------------------------------------------------
(* Inputs of the parser *)

IniAlphabet == {"a", "b", " ", "=", ":", ";", "[", "]"}

MaxLineLen == 4

MaxLines == 3

\* Lines the multi-line texts are built from.
IniLinePool ==
    {Str("a=b"), Str("b: a"), Str("a"), Str("[b]"), Str("[a"), Str(""), Str("; a"),
     Str(" a= b"),
     Str("aaaa=b"), Str("[aaaa]"), Str("[a\\]")}

IniTexts ==
    SeqsUpTo(IniAlphabet, MaxLineLen)
        \cup {Join(ls) : ls \in SeqsUpTo(IniLinePool, MaxLines)}

InitIni ==
    /\ file \in IniTexts
    /\ p = 1
    /\ lineno = 0
    /\ error = 0
    /\ section = <<>>
    /\ prev_name = <<>>
    /\ calls = <<>>
    /\ ipc = "loop"
    /\ GlobIdle
    /\ FileIdle

NextIni == IniParseLine \/ IniReturn

SpecIni == InitIni /\ [][NextIni]_vars

----------------------------------------------------------------------------
(* What the parser's contract says of a text, stated without the scanning  *)
(* helpers above: lines, trimming, comment starts, separators.             *)

Min(S) == CHOOSE x \in S : \A y \in S : x <= y

Max(S) == CHOOSE x \in S : \A y \in S : x >= y

\* s without its leading and trailing whitespace.
RefTrim(s) ==
    LET ns == {i \in 1..Len(s) : ~isspace(s[i])}
    IN  IF ns = {} THEN <<>> ELSE SubSeq(s, Min(ns), Max(ns))

\* The number of lines of f: a final line feed does not start another line.
RefLineCount(f) ==
    IF Len(f) = 0 THEN 0
    ELSE Cardinality({i \in 1..Len(f) : f[i] = "\n"})
             + (IF f[Len(f)] = "\n" THEN 0 ELSE 1)

\* The index at which line k of f starts.
RefLineStart(f, k) ==
    Min({i \in 1..Len(f) + 1 : Cardinality({j \in 1..i - 1 : f[j] = "\n"}) = k - 1})

\* The line of f that starts at index i, without its line feed.
RefLineFrom(f, i) ==
    SubSeq(f, i, Min({j \in i..Len(f) : f[j] = "\n"} \cup {Len(f) + 1}) - 1)

\* Line k of f, trimmed.
RefLine(f, k) == RefTrim(RefLineFrom(f, RefLineStart(f, k)))

\* t up to its comment start: a ';' or '#' that follows a whitespace character.
RefBody(t) ==
    LET cs == {i \in 2..Len(t) : t[i] \in {";", "#"} /\ isspace(t[i - 1])}
    IN  IF cs = {} THEN t ELSE SubSeq(t, 1, Min(cs) - 1)

RefIsComment(t) == Len(t) > 0 /\ t[1] \in {";", "#"}

RefIsSection(t) == Len(t) > 0 /\ t[1] = "["

RefIsPair(t) == Len(t) > 0 /\ t[1] \notin {";", "#", "["}

\* A section line without ']', or a name/value line without '=' and ':'.
RefSyntaxError(t) ==
    \/ RefIsSection(t) /\ ~\E i \in 2..Len(RefBody(t)) : RefBody(t)[i] = "]"
    \/ RefIsPair(t) /\ ~\E i \in 1..Len(RefBody(t)) : RefBody(t)[i] \in {"=", ":"}

RefWellFormedPair(t) == RefIsPair(t) /\ ~RefSyntaxError(t)

\* The separator of a line: its first '=', or its first ':' when it has no '='.
RefSep(t) ==
    LET eq == {i \in 1..Len(t) : t[i] = "="}
        co == {i \in 1..Len(t) : t[i] = ":"}
    IN  IF eq # {} THEN Min(eq) ELSE IF co # {} THEN Min(co) ELSE 0

RefName(t) == RefTrim(SubSeq(t, 1, RefSep(t) - 1))

RefValue(t) == RefTrim(SubSeq(t, RefSep(t) + 1, Len(t)))

\* name<sep>value without comment markers, both sides within their maxima.
RefPlainPair(t) ==
    /\ \A i \in 1..Len(t) : t[i] \notin {";", "#"}
    /\ RefSep(t) # 0
    /\ Len(RefName(t)) <= MAX_PROPERTY_NAME
    /\ Len(RefValue(t)) <= MAX_PROPERTY_VALUE

\* The line numbers of the handler calls made so far.
CallLines == {calls[i].line : i \in 1..Len(calls)}

----------------------------------------------------------------------------
(* Claims on ini_parse_file *)

\* C1 (as claimed): ini_parse_file terminates on every text: every pass of the
\* line loop that stays in the loop moves p forward, so that the loop is left after
\* at most one pass per line, also on lines that are skipped as over-long.
C1_EveryPassAdvances == [][(ipc = "loop" /\ ipc' = "loop") => p' > p]_vars

AtPlainPair == ipc = "loop" /\ p <= Len(file) /\ RefPlainPair(RefLineFrom(file, p))

\* The pass made exactly one handler call, with the trimmed sides of the line at p
\* and the section current before the pass.
DeliveredTrimmed ==
    /\ Len(calls') = Len(calls) + 1
    /\ calls'[Len(calls')].name = RefName(RefLineFrom(file, p))
    /\ calls'[Len(calls')].value = RefValue(RefLineFrom(file, p))
    /\ calls'[Len(calls')].section = section

----------------------------------------------------------------------------
(* The PCRE2 subset that ec_glob's translations use: pcre2_compile as a     *)
(* parser of the expression text into a tree, pcre2_match as a backtracking *)
(* matcher that lists the ways to match in PCRE2's order of preference.     *)
(*                                                                          *)
(* A tree is a sequence of alternatives, each a sequence of items:          *)
(*   lit c | cls neg cs dig | bol | eol | grp n alts | rep lo hi x          *)
(* grp with n = 0 is "(?:...)"; hi = -1 is "no upper limit".                *)

Digits == {"0", "1", "2", "3", "4", "5", "6", "7", "8", "9"}

Letters ==
    {"a", "b", "c", "d", "e", "f", "g", "h", "i", "j", "k", "l", "m", "n", "o", "p",
     "q", "r", "s", "t", "u", "v", "w", "x", "y", "z"}

isalnum(c) == c \in Digits \cup Letters

isdigit(c) == c \in Digits

\* The printable ASCII characters in code order, from ' ' (32) on; the grave
\* accent (96) is held by a name, no text here uses it.
Ascii ==
    Str(" !") \o <<"\"">> \o Str("#$%&'()*+,-./0123456789:;<=>?@")
        \o Str("ABCDEFGHIJKLMNOPQRSTUVWXYZ[") \o <<"\\">> \o Str("]^_") \o <<"grave">>
        \o Str("abcdefghijklmnopqrstuvwxyz{|}~")

Ord(c) == 31 + CHOOSE i \in 1..Len(Ascii) : Ascii[i] = c

DigitVal(c) == Ord(c) - 48

Lit(c) == [t |-> "lit", c |-> c]

Cls(neg, cs, dig) == [t |-> "cls", neg |-> neg, cs |-> cs, dig |-> dig]

Grp(n, alts) == [t |-> "grp", n |-> n, alts |-> alts]

Rep(lo, hi, x) == [t |-> "rep", lo |-> lo, hi |-> hi, x |-> x]

\* What a parsing step returns: ok = FALSE is a compile error; sup = FALSE marks a
\* construct outside the subset.  gpos lists the offsets of the capturing groups' opening parentheses.
Parsed(ok, sup, node, i, gpos) ==
    [ok |-> ok, sup |-> sup, node |-> node, i |-> i, gpos |-> gpos]

ParseFail(i, gpos) == Parsed(FALSE, TRUE, Lit(""), i, gpos)

ParseUnsup(i, gpos) == Parsed(FALSE, FALSE, Lit(""), i, gpos)

RECURSIVE ParseNumber(_, _, _)
\* The decimal number at re[i..]: <<value, next index>>; next = i when none.
ParseNumber(re, i, acc) ==
    IF isdigit(At(re, i)) THEN ParseNumber(re, i + 1, 10 * acc + DigitVal(re[i]))
    ELSE <<acc, i>>

\* The end of a quantifier "{n,m}" at re[i]: n2 is the number read after the
\* comma, which begins at index from.
BraceQuantUpper(re, i, lo, from, n2) ==
    IF n2[2] > from /\ At(re, n2[2]) = "}" THEN <<lo, n2[1], n2[2] + 1>>
    ELSE <<0, 0, i>>

\* A quantifier at re[i] = '{' whose first number n1 has been read.
BraceQuantFrom(re, i, n1) ==
    IF n1[2] = i + 1 THEN <<0, 0, i>>
    ELSE IF At(re, n1[2]) = "}" THEN <<n1[1], n1[1], n1[2] + 1>>
    ELSE IF At(re, n1[2]) # "," THEN <<0, 0, i>>
    ELSE IF At(re, n1[2] + 1) = "}" THEN <<n1[1], -1, n1[2] + 2>>
    ELSE BraceQuantUpper(re, i, n1[1], n1[2] + 1, ParseNumber(re, n1[2] + 1, 0))

\* A quantifier "{n}", "{n,}" or "{n,m}" at re[i] = '{': <<lo, hi, next>>, or
\* <<0, 0, i>> when the text is not a quantifier (the brace is then a literal).
BraceQuant(re, i) == BraceQuantFrom(re, i, ParseNumber(re, i + 1, 0))

\* The quantifier at re[i] as <<lo, hi, next>>; next = i when there is none.
Quantifier(re, i) ==
    LET c == At(re, i)
    IN  IF c = "*" THEN <<0, -1, i + 1>>
        ELSE IF c = "+" THEN <<1, -1, i + 1>>
        ELSE IF c = "?" THEN <<0, 1, i + 1>>
        ELSE IF c = "{" THEN BraceQuant(re, i)
        ELSE <<0, 0, i>>

\* The item a under the quantifier q that follows it.
Quantified(re, a, q) ==
    IF ~a.ok \/ q[3] = a.i THEN a
    ELSE IF At(re, q[3]) \in {"?", "+"} \/ a.node.t \in {"bol", "eol"}
         \/ (q[2] # -1 /\ q[2] < q[1])
    THEN ParseUnsup(a.i, a.gpos)
    ELSE Parsed(TRUE, TRUE, Rep(q[1], q[2], a.node), q[3], a.gpos)

\* The item a with the quantifier that follows it, if any.
ParseQuant(re, a) == Quantified(re, a, Quantifier(re, a.i))

\* The characters from lo to hi in code order.
CharRange(lo, hi) ==
    {Ascii[k] : k \in {j \in 1..Len(Ascii) : Ord(lo) <= 31 + j /\ 31 + j <= Ord(hi)}}

RECURSIVE ParseClassItems(_, _, _, _, _, _)
RECURSIVE ClassItem(_, _, _, _, _, _, _, _)
RECURSIVE ClassRange(_, _, _, _, _, _, _, _, _)

\* The items of a character class from re[i] to its ']'; first is TRUE at the
\* first item, where a ']' is a literal.
ParseClassItems(re, i, neg, cs, dig, first) ==
    LET c == At(re, i)
    IN  IF c = "" THEN ParseFail(i, <<>>)
        ELSE IF c = "]" /\ ~first THEN Parsed(TRUE, TRUE, Cls(neg, cs, dig), i + 1, <<>>)
        ELSE IF c = "\\" THEN ClassItem(re, i, neg, cs, dig, At(re, i + 1), i + 2, TRUE)
        ELSE IF c = "[" /\ At(re, i + 1) \in {":", ".", "="} THEN ParseUnsup(i, <<>>)
        ELSE ClassItem(re, i, neg, cs, dig, c, i + 1, FALSE)

\* The class item that begins at re[i]: the character ch (escaped when esc),
\* with the text after it at index nx.
ClassItem(re, i, neg, cs, dig, ch, nx, esc) ==
    IF esc /\ ch = "" THEN ParseFail(i, <<>>)
    ELSE IF esc /\ ch = "d" THEN ParseClassItems(re, nx, neg, cs, TRUE, FALSE)
    ELSE IF esc /\ isalnum(ch) THEN ParseUnsup(i, <<>>)
    ELSE IF At(re, nx) = "-" /\ At(re, nx + 1) \notin {"]", ""}
    THEN IF At(re, nx + 1) = "\\"
         THEN ClassRange(re, i, neg, cs, dig, ch, At(re, nx + 2), nx + 3, TRUE)
         ELSE ClassRange(re, i, neg, cs, dig, ch, At(re, nx + 1), nx + 2, FALSE)
    ELSE ParseClassItems(re, nx, neg, cs \cup {ch}, dig, FALSE)

\* The range ch-hi of a class (hi escaped when hesc), with the text after it
\* at index hnx.
ClassRange(re, i, neg, cs, dig, ch, hi, hnx, hesc) ==
    IF hesc /\ (hi = "" \/ isalnum(hi)) THEN ParseUnsup(i, <<>>)
    ELSE IF Ord(ch) > Ord(hi) THEN ParseFail(i, <<>>)
    ELSE ParseClassItems(re, hnx, neg, cs \cup CharRange(ch, hi), dig, FALSE)

\* A character class; re[i] is the character after '['.
ParseClass(re, i) ==
    IF At(re, i) = "^" THEN ParseClassItems(re, i + 1, TRUE, {}, FALSE, TRUE)
    ELSE ParseClassItems(re, i, FALSE, {}, FALSE, TRUE)

\* The class cl as an item, with the capturing groups gpos opened before it.
ClassAtom(cl, gpos) == Parsed(cl.ok, cl.sup, cl.node, cl.i, gpos)

RECURSIVE ParseAlts(_, _, _, _, _)
RECURSIVE ParseItem(_, _, _, _)
RECURSIVE ParseAtom(_, _, _)

\* The alternatives from re[i] to the closing ')' or the end; gpos are the
\* capturing groups opened so far, alts the alternatives completed, cur the items
\* of the alternative in progress.
ParseAlts(re, i, gpos, alts, cur) ==
    IF At(re, i) \in {"", ")"} THEN Parsed(TRUE, TRUE, Append(alts, cur), i, gpos)
    ELSE IF re[i] = "|" THEN ParseAlts(re, i + 1, gpos, Append(alts, cur), <<>>)
    ELSE ParseItem(re, alts, cur, ParseQuant(re, ParseAtom(re, i, gpos)))

\* The alternatives continued after the item q.
ParseItem(re, alts, cur, q) ==
    IF ~q.ok THEN q
    ELSE ParseAlts(re, q.i, q.gpos, alts, Append(cur, q.node))

\* The group n whose alternatives in have been read up to its ')'.
CloseGroup(re, n, gpos, in) ==
    IF ~in.ok THEN in
    ELSE IF At(re, in.i) # ")" THEN ParseFail(in.i, gpos)
    ELSE Parsed(TRUE, TRUE, Grp(n, in.node), in.i + 1, in.gpos)

ParseAtom(re, i, gpos) ==
    LET c == re[i]
    IN  IF c = "("
        THEN IF At(re, i + 1) = "?"
             THEN IF At(re, i + 2) # ":" THEN ParseUnsup(i, gpos)
                  ELSE CloseGroup(re, 0, gpos, ParseAlts(re, i + 3, gpos, <<>>, <<>>))
             ELSE CloseGroup(re, Len(gpos) + 1, gpos,
                             ParseAlts(re, i + 1, Append(gpos, i), <<>>, <<>>))
        ELSE IF c = "[" THEN ClassAtom(ParseClass(re, i + 1), gpos)
        ELSE IF c = "\\"
        THEN IF At(re, i + 1) = "" THEN ParseFail(i, gpos)
             ELSE IF re[i + 1] = "d"
             THEN Parsed(TRUE, TRUE, Cls(FALSE, {}, TRUE), i + 2, gpos)
             ELSE IF isalnum(re[i + 1]) THEN ParseUnsup(i, gpos)
             ELSE Parsed(TRUE, TRUE, Lit(re[i + 1]), i + 2, gpos)
        ELSE IF c = "." THEN Parsed(TRUE, TRUE, Cls(TRUE, {"\n"}, FALSE), i + 1, gpos)
        ELSE IF c = "^" THEN Parsed(TRUE, TRUE, [t |-> "bol"], i + 1, gpos)
        ELSE IF c = "$" THEN Parsed(TRUE, TRUE, [t |-> "eol"], i + 1, gpos)
        ELSE IF c \in {"*", "+", "?"} THEN ParseFail(i, gpos)
        ELSE IF c = "{" /\ BraceQuant(re, i)[3] # i THEN ParseUnsup(i, gpos)
        ELSE Parsed(TRUE, TRUE, Lit(c), i + 1, gpos)

\* The whole expression parsed to r: text left over is an unmatched ')'.
WholeExpression(re, r) ==
    IF r.ok /\ r.i <= Len(re) THEN ParseFail(r.i, r.gpos) ELSE r

\* pcre2_compile: the tree of the expression text, ok = FALSE when PCRE2 rejects
\* it (an unmatched parenthesis, a quantifier without an item, ...).
pcre2_compile(re) == WholeExpression(re, ParseAlts(re, 1, <<>>, <<>>, <<>>))

----------------------------------------------------------------------------
(* pcre2_match *)

\* Offsets of an unset group in the ovector (PCRE2_UNSET).
PCRE2_UNSET == <<-1, -1>>

Matching(pos, caps) == [pos |-> pos, caps |-> caps]

InClass(node, c) ==
    IF node.neg THEN ~(c \in node.cs \/ (node.dig /\ isdigit(c)))
    ELSE c \in node.cs \/ (node.dig /\ isdigit(c))

RECURSIVE MatchNode(_, _, _)
RECURSIVE MatchEach(_, _, _)
RECURSIVE MatchSeq(_, _, _, _)
RECURSIVE MatchAlts(_, _, _, _)
RECURSIVE MatchRep(_, _, _, _)
RECURSIVE MatchRepEach(_, _, _, _, _)
RECURSIVE SetGroup(_, _, _)

\* The ways to match one item at m, in order of preference.
MatchNode(node, s, m) ==
    IF node.t = "lit"
    THEN IF At(s, m.pos + 1) = node.c /\ m.pos < Len(s)
         THEN <<Matching(m.pos + 1, m.caps)>> ELSE <<>>
    ELSE IF node.t = "cls"
    THEN IF m.pos < Len(s) /\ InClass(node, s[m.pos + 1])
         THEN <<Matching(m.pos + 1, m.caps)>> ELSE <<>>
    ELSE IF node.t = "bol" THEN (IF m.pos = 0 THEN <<m>> ELSE <<>>)
    ELSE IF node.t = "eol"
    THEN IF m.pos = Len(s) \/ (m.pos = Len(s) - 1 /\ s[Len(s)] = "\n")
         THEN <<m>> ELSE <<>>
    ELSE IF node.t = "grp"
    THEN IF node.n = 0 THEN MatchAlts(node.alts, 1, s, m)
         ELSE SetGroup(MatchAlts(node.alts, 1, s, m), node.n, m.pos)
    ELSE MatchRep(node, s, m, 0)

\* The group n of every matching in ms set to start..pos.
SetGroup(ms, n, start) ==
    IF ms = <<>> THEN <<>>
    ELSE <<Matching(ms[1].pos, [ms[1].caps EXCEPT ![n] = <<start, ms[1].pos>>])>>
             \o SetGroup(Tail(ms), n, start)

\* The item applied to each matching of ms, in order.
MatchEach(node, s, ms) ==
    IF ms = <<>> THEN <<>>
    ELSE MatchNode(node, s, ms[1]) \o MatchEach(node, s, Tail(ms))

\* The items k.. of an alternative applied to the matchings ms.
MatchSeq(items, k, s, ms) ==
    IF k > Len(items) \/ ms = <<>> THEN ms
    ELSE MatchSeq(items, k + 1, s, MatchEach(items[k], s, ms))

\* The alternatives a.. tried in turn at m.
MatchAlts(alts, a, s, m) ==
    IF a > Len(alts) THEN <<>>
    ELSE MatchSeq(alts[a], 1, s, <<m>>) \o MatchAlts(alts, a + 1, s, m)

\* A greedy repetition that has matched count times: one more first, then stop.
MatchRep(node, s, m, count) ==
    (IF node.hi = -1 \/ count < node.hi
     THEN MatchRepEach(node, s, MatchNode(node.x, s, m), m.pos, count + 1)
     ELSE <<>>)
        \o (IF count >= node.lo THEN <<m>> ELSE <<>>)

\* The repetition continued from each matching of ms that consumed something.
MatchRepEach(node, s, ms, from, count) ==
    IF ms = <<>> THEN <<>>
    ELSE (IF ms[1].pos > from THEN MatchRep(node, s, ms[1], count) ELSE <<>>)
             \o MatchRepEach(node, s, Tail(ms), from, count)

RECURSIVE MatchAt(_, _, _)
\* The unanchored search: the first start offset that has a matching.
MatchAt(code, s, start) ==
    IF start > Len(s) THEN [rc |-> -1, ovector |-> <<>>]
    ELSE LET caps0 == [n \in 1..Len(code.gpos) |-> PCRE2_UNSET]
             ms    == MatchAlts(code.node, 1, s, Matching(start, caps0))
         IN  IF ms # <<>> THEN [rc |-> Len(code.gpos) + 1, ovector |-> ms[1].caps]
             ELSE MatchAt(code, s, start + 1)

\* pcre2_match(code, s): rc < 0 is PCRE2_ERROR_NOMATCH; ovector[n] are the
\* offsets of group n in the preferred matching.
pcre2_match(code, s) == MatchAt(code, s, 0)

----------------------------------------------------------------------------
(* ec_glob.c: the translation of a glob pattern into a PCRE2 expression     *)

\* ec_glob.c's PATTERN_MAX is 4097; it is scaled down so that translations that
\* fill the buffers of 2 * PATTERN_MAX bytes occur for short patterns.
PATTERN_MAX == 32

\* ec_glob.h's result for "no match"; 0 is a match, a negative value an error.
EC_GLOB_NOMATCH == 1

RECURSIVE AtoiDigits(_, _, _)
AtoiDigits(s, i, acc) ==
    IF isdigit(At(s, i)) THEN AtoiDigits(s, i + 1, 10 * acc + DigitVal(s[i])) ELSE acc

\* util.c's ec_atoi: an optional sign, then the decimal digits that follow.
ec_atoi(s) ==
    IF At(s, 1) = "-" THEN 0 - AtoiDigits(s, 2, 0)
    ELSE IF At(s, 1) = "+" THEN AtoiDigits(s, 2, 0)
    ELSE AtoiDigits(s, 1, 0)

kNumberPattern == Str("^\\{[\\+\\-]?\\d+\\.\\.[\\+\\-]?\\d+\\}$")

ec_glob_number_pattern == pcre2_compile(kNumberPattern)

RECURSIVE BracesPaired(_, _, _, _)
\* The pre-scan: are the unescaped braces of lp paired?  c is the scan position.
BracesPaired(lp, c, left_count, right_count) ==
    IF c > Len(lp) THEN right_count = left_count
    ELSE IF lp[c] = "\\" /\ At(lp, c + 1) # "" THEN
        BracesPaired(lp, c + 2, left_count, right_count)
    ELSE LET r == IF lp[c] = "}" THEN right_count + 1 ELSE right_count
             l == IF lp[c] = "{" THEN left_count + 1 ELSE left_count
         IN  IF r > l THEN FALSE ELSE BracesPaired(lp, c + 1, l, r)

are_braces_paired(lp) == BracesPaired(lp, 1, 0, 0)

RECURSIVE HasSlash(_, _)
\* The scan from a '[' at cc for a '/' before the next ']'.
HasSlash(lp, cc) ==
    IF At(lp, cc) \in {"", "]"} THEN FALSE
    ELSE IF lp[cc] = "\\" /\ At(lp, cc + 1) # "" THEN HasSlash(lp, cc + 2)
    ELSE IF lp[cc] = "/" THEN TRUE
    ELSE HasSlash(lp, cc + 1)

RECURSIVE SingleScan(_, _)
\* The scan after a '{' for its '}' : <<cc, is_single>>.
SingleScan(lp, cc) ==
    IF At(lp, cc) = "" THEN <<cc, FALSE>>
    ELSE IF lp[cc] = "}" THEN <<cc, TRUE>>
    ELSE IF lp[cc] = "\\" /\ At(lp, cc + 1) # "" THEN SingleScan(lp, cc + 2)
    ELSE IF lp[cc] = "," THEN <<cc, FALSE>>
    ELSE SingleScan(lp, cc + 1)

RECURSIVE StrStr(_, _, _)
\* strstr: the first index from i on where needle occurs in s, 0 if none.
StrStr(s, needle, i) ==
    IF i + Len(needle) - 1 > Len(s) THEN 0
    ELSE IF SubSeq(s, i, i + Len(needle) - 1) = needle THEN i
    ELSE StrStr(s, needle, i + 1)

\* The state of the translation loop: c the position in l_pattern (lp), out the
\* text written after the "^" of pcre_str, ret = -1 after STRING_CAT's return.
\* numat and overrun are history: for each entry of nums, the index in pcre_str
\* of the '(' of the group emitted with it; a write went past the end of pcre_str
\* or of l_pattern.
Translation(c, lp, out, brace_level, is_in_bracket, nums, numat, ret, overrun) ==
    [c |-> c, lp |-> lp, out |-> out, brace_level |-> brace_level,
     is_in_bracket |-> is_in_bracket, nums |-> nums, numat |-> numat, ret |-> ret,
     overrun |-> overrun]

\* STRING_CAT(p_pcre, string, pcre_str_end); p_pcre is pcre_str + 1 + Len(out).
STRING_CAT(st, string) ==
    IF 1 + Len(st.out) + Len(string) >= 2 * PATTERN_MAX THEN [st EXCEPT !.ret = -1]
    ELSE [st EXCEPT !.out = @ \o string]

\* *(p_pcre ++) = ch, for each ch of chars (and the strcat, strncat of the
\* bracket case): no test against pcre_str_end; the last index of pcre_str is
\* 2 * PATTERN_MAX - 1.
Put(st, chars) ==
    [st EXCEPT !.out = @ \o chars,
               !.overrun = @ \/ 1 + Len(st.out) + Len(chars) > 2 * PATTERN_MAX]

\* memmove(cc + 1, cc, strlen(cc) + 1); *cc = '\\': l_pattern grows by one
\* character, with no test against its size.
InsertBackslash(st, cc) ==
    [st EXCEPT !.lp = SubSeq(st.lp, 1, cc - 1) \o <<"\\">> \o From(st.lp, cc),
               !.overrun = @ \/ Len(st.lp) + 2 > 2 * PATTERN_MAX]

\* The for loop's ++c after a case that leaves c at index at.
Step(st, at) == [st EXCEPT !.c = at + 1]

\* case '[' outside a bracket.
OpenBracket(st) ==
    LET c  == st.c
        lp == st.lp
    IN  IF HasSlash(lp, c)
        THEN LET rb0           == strchr(lp, c, "]")
                 right_bracket == IF rb0 = 0 THEN Len(lp) + 1 ELSE rb0
                 copied        == <<"\\">> \o SubSeq(lp, c, right_bracket - 1)
                                      \o (IF right_bracket <= Len(lp) THEN Str("\\]")
                                          ELSE <<>>)
             IN  Step(Put(st, copied),
                      IF right_bracket > Len(lp) THEN right_bracket - 1
                      ELSE right_bracket)
        ELSE IF At(lp, c + 1) = "!"
        THEN Step([STRING_CAT(st, Str("[^")) EXCEPT !.is_in_bracket = TRUE], c + 1)
        ELSE Step([Put(st, <<"[">>) EXCEPT !.is_in_bracket = TRUE], c)

\* case '{' when the braces are paired.
OpenBrace(st) ==
    LET c    == st.c
        lp   == st.lp
        scan == SingleScan(lp, c + 1)
        cc   == scan[1]
    IN  IF scan[2]
        THEN IF pcre2_match(ec_glob_number_pattern, SubSeq(lp, c, cc)).rc < 0
             THEN LET t == STRING_CAT(st, Str("\\{"))
                  IN  IF t.ret # 0 THEN t
                      ELSE Step(InsertBackslash(t, cc), c)
             ELSE LET double_dots == StrStr(lp, Str(".."), c)
                      pair == [num1 |-> ec_atoi(From(lp, c + 1)),
                               num2 |-> ec_atoi(From(lp, double_dots + 2))]
                      t    == STRING_CAT(st, Str("([\\+\\-]?\\d+)"))
                  IN  Step([t EXCEPT !.nums = Append(@, pair),
                                     !.numat = Append(@, 2 + Len(st.out))], cc)
        ELSE Step([STRING_CAT(st, Str("(?:")) EXCEPT !.brace_level = @ + 1], c)

\* One pass of the translation loop: the switch on lp[c], then ++c.
TranslateChar(st, paired) ==
    LET c  == st.c
        lp == st.lp
        ch == lp[c]
    IN  IF ch = "\\"
        THEN IF At(lp, c + 1) # "" THEN Step(Put(st, <<ch, lp[c + 1]>>), c + 1)
             ELSE Step(STRING_CAT(st, Str("\\\\")), c)
        ELSE IF ch = "?" THEN Step(STRING_CAT(st, Str("[^/]")), c)
        ELSE IF ch = "*"
        THEN IF At(lp, c + 1) = "*" THEN Step(STRING_CAT(st, Str(".*")), c + 1)
             ELSE Step(STRING_CAT(st, Str("[^\\/]*")), c)
        ELSE IF ch = "["
        THEN IF st.is_in_bracket THEN Step(STRING_CAT(st, Str("\\[")), c)
             ELSE OpenBracket(st)
        ELSE IF ch = "]" THEN Step([Put(st, <<ch>>) EXCEPT !.is_in_bracket = FALSE], c)
        ELSE IF ch = "-"
        THEN IF st.is_in_bracket THEN Step(Put(st, <<ch>>), c)
             ELSE Step(STRING_CAT(st, Str("\\-")), c)
        ELSE IF ch = "{"
        THEN IF ~paired THEN Step(STRING_CAT(st, Str("\\{")), c)
             ELSE OpenBrace(st)
        ELSE IF ch = "}"
        THEN IF ~paired THEN Step(STRING_CAT(st, Str("\\}")), c)
             ELSE Step([Put(st, <<")">>) EXCEPT !.brace_level = @ - 1], c)
        ELSE IF ch = ","
        THEN IF st.brace_level > 0 THEN Step(Put(st, <<"|">>), c)
             ELSE Step(STRING_CAT(st, Str("\\,")), c)
        ELSE IF ch = "/"
        THEN IF SubSeq(lp, c, Min({c + 3, Len(lp)})) = Str("/**/")
             THEN Step(STRING_CAT(st, Str("(\\/|\\/.*\\/)")), c + 3)
             ELSE Step(STRING_CAT(st, Str("\\/")), c)
        ELSE IF ~isalnum(ch) THEN Step(Put(st, <<"\\", ch>>), c)
        ELSE Step(Put(st, <<ch>>), c)

RECURSIVE TranslateFrom(_, _)
\* The translation loop from state st on, until the end of lp or a return.
TranslateFrom(st, paired) ==
    IF st.ret # 0 \/ st.overrun \/ st.c > Len(st.lp) THEN st
    ELSE TranslateFrom(TranslateChar(st, paired), paired)

\* The translation of a pattern: the loop, then the closing '$'.  pcre_str is
\* "^" followed by out.
Translate(pattern) ==
    LET st == TranslateFrom(Translation(1, pattern, <<>>, 0, FALSE, <<>>, <<>>, 0,
                                        FALSE),
                            are_braces_paired(pattern))
    IN  IF st.ret # 0 \/ st.overrun THEN st ELSE Put(st, <<"$">>)

pcre_str(st) == <<"^">> \o st.out

----------------------------------------------------------------------------
(* ec_glob.c: the pattern cache and the steps of an ec_glob call            *)
(*                                                                          *)
(* A compiled code is held as the expression text it was compiled from;     *)
(* pcre2_serialize_encode and pcre2_serialize_decode copy it.               *)

\* A lookup that never finds what was stored.
MapAt_absent(map, pattern) == [first |-> NULL, second |-> NULL]

\* (*_map)[pattern]: the entry of pattern, default-constructed when absent.
MapAt(map, pattern) ==
    IF pattern \in DOMAIN map THEN map[pattern] ELSE [first |-> NULL, second |-> NULL]

MapWith(map, pattern, entry) ==
    [k \in DOMAIN map \cup {pattern} |-> IF k = pattern THEN entry ELSE map[k]]

\* A cache whose store leaves the map as it is.
ec_glob_cached_pattern_nostore(map, pattern, re, nums) ==
    IF pattern = <<>> \/ re # NULL
    THEN [map |-> map, first |-> NULL, second |-> NULL]
    ELSE LET entry == MapAt(map, pattern)
         IN  [map |-> MapWith(map, pattern, entry), first |-> entry.first,
              second |-> IF entry.first # NULL THEN entry.second ELSE NULL]

\* ec_glob_cached_pattern(pattern, re, nums), one critical section: the map
\* after the call and the pair returned.
ec_glob_cached_pattern(map, pattern, re, nums) ==
    IF pattern = <<>>
    THEN [map |-> map, first |-> NULL, second |-> NULL]
    ELSE IF re = NULL
    THEN LET entry == MapAt(map, pattern)
         IN  [map |-> MapWith(map, pattern, entry), first |-> entry.first,
              second |-> IF entry.first # NULL THEN entry.second ELSE NULL]
    ELSE [map |-> MapWith(map, pattern, [first |-> re, second |-> nums]),
          first |-> NULL, second |-> NULL]

\* The byte a read outside the candidate can find (its value is not defined).
StrayBytes == {"0", "x"}

RECURSIVE RangeCheck(_, _, _, _, _)
\* The range check loop from entry i on: 0 when every entry passes.
RangeCheck(nums, i, ovector, string, stray) ==
    IF i > Len(nums) THEN 0
    ELSE LET ov    == IF i <= Len(ovector) THEN ovector[i] ELSE PCRE2_UNSET
             unset == ov = PCRE2_UNSET
             first == IF unset THEN stray ELSE At(string, ov[1] + 1)
             num_string == IF unset THEN <<>> ELSE SubSeq(string, ov[1] + 1, ov[2])
             num   == ec_atoi(num_string)
         IN  IF first = "0" THEN EC_GLOB_NOMATCH
             ELSE IF num < nums[i].num1 \/ num > nums[i].num2 THEN EC_GLOB_NOMATCH
             ELSE RangeCheck(nums, i + 1, ovector, string, stray)

\* The match and the range checks of ec_glob with code re and array nums.
MatchResult(re, nums, string, stray) ==
    LET m == pcre2_match(pcre2_compile(re), string)
    IN  IF m.rc < 0 THEN EC_GLOB_NOMATCH
        ELSE RangeCheck(nums, 1, m.ovector, string, stray)

\* The results the match can give, over the bytes an undefined read can find.
MatchResults(re, nums, string) ==
    {MatchResult(re, nums, string, stray) : stray \in StrayBytes}

MaxCompiles == 3

\* The return of a call with result ret: its locals are gone, the caller holds ret.
Return(l, ret) == Local("idle", l.pattern, <<>>, NULL, NULL, ret, l.cached, TRUE)

\* A call that has written past the end of l_pattern or pcre_str: what it does
\* from there on is not defined.
Overrun(l) == [l EXCEPT !.pc = "overrun"]

\* strcpy(l_pattern, pattern) writes Len(pattern) + 1 bytes, with no test against
\* the size of l_pattern.
StrcpyFits(pattern) == Len(pattern) + 1 <= 2 * PATTERN_MAX

\* Entry of ec_glob(pattern, string): the strcpy, then the fetch from the cache.
GlobFetch(t, strings) ==
    /\ gl[t].pc = "idle"
    /\ Len(compile_log) < MaxCompiles
    /\ \E string \in strings :
          LET cached == ec_glob_cached_pattern(glob_map, gl[t].pattern, NULL, NULL)
          IN  IF ~StrcpyFits(gl[t].pattern)
              THEN /\ gl' = [gl EXCEPT ![t] = Overrun(gl[t])]
                   /\ UNCHANGED glob_map
              ELSE /\ glob_map' = cached.map
                   /\ gl' = [gl EXCEPT ![t] =
                                Local(IF cached.first = NULL THEN "compile" ELSE "match",
                                      gl[t].pattern, string, cached.first,
                                      cached.second, 0, cached.first # NULL, FALSE)]
    /\ UNCHANGED <<iniVars, fileVars, compile_log>>

\* The cache held no code: translate, then pcre2_compile.
GlobCompile(t) ==
    /\ gl[t].pc = "compile"
    /\ LET st == Translate(gl[t].pattern)
           re == pcre2_compile(pcre_str(st))
       IN  IF st.overrun
           THEN /\ gl' = [gl EXCEPT ![t] = Overrun(gl[t])]
                /\ UNCHANGED compile_log
           ELSE IF st.ret # 0
           THEN /\ gl' = [gl EXCEPT ![t] = Return(gl[t], -1)]
                /\ UNCHANGED compile_log
           ELSE /\ compile_log' = Append(compile_log,
                                         [pattern |-> gl[t].pattern, ok |-> re.ok,
                                          sup |-> re.sup, re |-> pcre_str(st),
                                          nums |-> st.nums])
                /\ IF re.ok
                   THEN gl' = [gl EXCEPT ![t].pc = "store", ![t].re = pcre_str(st),
                                         ![t].nums = st.nums]
                   ELSE gl' = [gl EXCEPT ![t] = Return(gl[t], -1)]
    /\ UNCHANGED <<iniVars, fileVars, glob_map>>

\* The store of the compiled code and its nums.
GlobStore(t) ==
    /\ gl[t].pc = "store"
    /\ glob_map' = ec_glob_cached_pattern(glob_map, gl[t].pattern, gl[t].re,
                                          gl[t].nums).map
    /\ gl' = [gl EXCEPT ![t].pc = "match"]
    /\ UNCHANGED <<iniVars, fileVars, compile_log>>

\* pcre2_match, the range checks and the return.
GlobMatch(t) ==
    /\ gl[t].pc = "match"
    /\ \E ret \in MatchResults(gl[t].re, gl[t].nums, gl[t].string) :
          gl' = [gl EXCEPT ![t] = Return(gl[t], ret)]
    /\ UNCHANGED <<iniVars, fileVars, glob_map, compile_log>>

\* Before the first call: an empty cache, each thread with the pattern it will use.
InitGlob(patterns1, patterns2) ==
    /\ IniIdle
    /\ FileIdle
    /\ glob_map = EmptyMap
    /\ compile_log = <<>>
    /\ \E p1 \in patterns1, p2 \in patterns2 :
          gl = [t \in Threads |->
                   Local("idle", IF t = MainThread THEN p1 ELSE p2, <<>>, NULL, NULL,
                         0, FALSE, FALSE)]

\* The steps of thread t, its candidates drawn from strings.
GlobNext(t, strings) ==
    GlobFetch(t, strings) \/ GlobCompile(t) \/ GlobStore(t) \/ GlobMatch(t)

RECURSIVE Concat(_)
\* The concatenation of a sequence of texts.
Concat(ts) == IF ts = <<>> THEN <<>> ELSE ts[1] \o Concat(Tail(ts))

----------------------------------------------------------------------------
(* Inputs of the matcher: a pattern of one numeric-range token *)

NumTexts == {Str("0"), Str("1"), Str("3"), Str("-1"), Str("+3")}

NumPatterns == {<<"{">> \o lo \o Str("..") \o hi \o <<"}">> : lo, hi \in NumTexts}

NumAlphabet == {"0", "1", "3", "-", "+", "\n"}

MaxNumLen == 2

NumCandidates == SeqsUpTo(NumAlphabet, MaxNumLen)

InitRange == InitGlob(NumPatterns, {<<>>})

NextRange == GlobNext(MainThread, NumCandidates)

SpecRange == InitRange /\ [][NextRange]_vars

----------------------------------------------------------------------------
(* Inputs of the matcher: patterns built of tokens *)

GlobTokens ==
    {Str("{0..1}"), Str("/**/"), Str("a"), Str("*"), Str("{a,{0..1}}"), Str("[")}

MaxTokens == 2

GlobPatterns == {Concat(ts) : ts \in SeqsUpTo(GlobTokens, MaxTokens)}

GlobAlphabet == {"1", "/", "a"}

MaxGlobLen == 2

GlobCandidates == SeqsUpTo(GlobAlphabet, MaxGlobLen)

InitGlobCalls == InitGlob(GlobPatterns, {<<>>})

NextGlobCalls == GlobNext(MainThread, GlobCandidates)

SpecGlob == InitGlobCalls /\ [][NextGlobCalls]_vars

----------------------------------------------------------------------------
(* Inputs of the matcher: patterns whose braces are not balanced *)

\* The braces of a text without escapes are balanced: no prefix has more '}' than
\* '{', and the text has as many of the one as of the other.
RefCount(s, n, c) == Cardinality({i \in 1..n : s[i] = c})

RefBalanced(s) ==
    /\ \A n \in 1..Len(s) : RefCount(s, n, "}") <= RefCount(s, n, "{")
    /\ RefCount(s, Len(s), "}") = RefCount(s, Len(s), "{")

BraceAlphabet == {"{", "}", ","}

MaxBraceLen == 3

BracePatterns ==
    {s \in SeqsUpTo(BraceAlphabet, MaxBraceLen) \cup {Str("a{b"), Str("[{1}/{")} :
        ~RefBalanced(s)}

BraceCandidates ==
    SeqsUpTo(BraceAlphabet \cup {"\n"}, MaxBraceLen) \cup BracePatterns
        \cup {Str("[/{")}

InitBrace == InitGlob(BracePatterns, {<<>>})

NextBrace == GlobNext(MainThread, BraceCandidates)

SpecBrace == InitBrace /\ [][NextBrace]_vars

----------------------------------------------------------------------------
(* Inputs of the matcher: patterns of wildcards and path separators *)

WildTokens == {Str("?"), Str("*"), Str("**"), Str("/**/"), Str("a"), Str("/")}

MaxWildTokens == 2

WildPatterns == {Concat(ts) : ts \in SeqsUpTo(WildTokens, MaxWildTokens)}

WildAlphabet == {"a", "/", "\n"}

MaxWildLen == 3

WildCandidates == SeqsUpTo(WildAlphabet, MaxWildLen)

InitWild == InitGlob(WildPatterns, {<<>>})

NextWild == GlobNext(MainThread, WildCandidates)

SpecWild == InitWild /\ [][NextWild]_vars

----------------------------------------------------------------------------
(* Inputs of the matcher: two threads *)

MTPatterns == {Str("a"), Str("{0..1}")}

MTCandidates == {Str("a"), Str("1")}

InitGlobMT == InitGlob(MTPatterns, MTPatterns)

NextGlobMT == \E t \in Threads : GlobNext(t, MTCandidates)

SpecGlobMT == InitGlobMT /\ [][NextGlobMT]_vars

\* Long patterns: one character repeated, at the lengths around the capacities.
LongChars == {"a", "!", "?", "{"}

\* The number of lengths tried on each side of a capacity.
MaxSlack == 3

LongLengths ==
    {n \in 1..(2 * PATTERN_MAX + MaxSlack) :
        \/ n <= MaxSlack
        \/ PATTERN_MAX - MaxSlack <= n /\ n <= PATTERN_MAX + MaxSlack
        \/ 2 * PATTERN_MAX - MaxSlack <= n}

\* Patterns that begin with the span "{}", which makes l_pattern grow by one
\* character.
SpanPatterns == {Str("{}") \o [i \in 1..n |-> "a"] : n \in LongLengths}

LongPatterns == {[i \in 1..n |-> c] : n \in LongLengths, c \in LongChars} \cup SpanPatterns

LongCandidates == {Str("a"), Str("!"), <<>>}

InitLong == InitGlob(LongPatterns, {<<>>})

NextLong == GlobNext(MainThread, LongCandidates)

SpecLong == InitLong /\ [][NextLong]_vars

----------------------------------------------------------------------------
(* Inputs of the matcher: bracket runs that hold a '/' *)

BracketAlphabet == {"a", "/", ".", "*", "+", "?", "(", "{"}

MaxBracketLen == 2

\* What stands between the '[' and the ']' (or the end of the pattern).
BracketContents ==
    {s \in SeqsUpTo(BracketAlphabet, MaxBracketLen) : \E i \in 1..Len(s) : s[i] = "/"}
        \cup {Str("a{1}/"), Str("a/.")}

BracketPatterns ==
    {<<"[">> \o s \o <<"]">> : s \in BracketContents}
        \cup {<<"[">> \o s : s \in BracketContents}

BracketCandidates ==
    BracketPatterns \cup {Str("/]"), Str("/"), Str("[[/]"), Str("[[/"), Str("[a/]a")}

InitBracket == InitGlob(BracketPatterns, {<<>>})

NextBracket == GlobNext(MainThread, BracketCandidates)

SpecBracket == InitBracket /\ [][NextBracket]_vars

----------------------------------------------------------------------------
(* Inputs of the matcher: patterns of balanced braces, commas and letters *)

AltAlphabet == {"{", "}", ",", "a"}

MaxAltLen == 4

AltPatterns ==
    {s \in SeqsUpTo(AltAlphabet, MaxAltLen) : RefBalanced(s)}
        \cup {Str("{a,b,c}"), Str("{a,{b,c}}"), Str("{a,b},c"), Str("{{a},b}"),
              Str("{a{},b}")}

MaxAltCandidateLen == 3

AltCandidates ==
    SeqsUpTo({"a", ",", "\n"}, MaxAltCandidateLen)
        \cup {Str("b"), Str("c"), Str("d"), Str("a,b,c"), Str("b,c"), Str("a,c"),
              Str("b\n"), Str("{a,b,c}"), Str("{a}"), Str("{b"), Str("a{}"), Str("{a}")}

InitAlt == InitGlob(AltPatterns, {<<>>})

NextAlt == GlobNext(MainThread, AltCandidates)

SpecAlt == InitAlt /\ [][NextAlt]_vars

----------------------------------------------------------------------------
(* Inputs of the matcher: patterns with a brace span that has no comma *)

\* Patterns made of such spans and letters alone.
PlainSpanPatterns ==
    {Str("{abc}"), Str("{}"), Str("{a}"), Str("a{}a"), Str("{a}{a}"), Str("{{a}}"),
     Str("{}{}"), Str("{1..}"), Str("{..1}"), Str("{1.1}"), Str("{1}"), Str("{a..1}"),
     Str("{1..a}"), Str("{+..1}")}

\* Such spans beside and inside spans with commas.
MixedSpanPatterns ==
    {Str("{a}{a,b}"), Str("{a,b}{a}"), Str("{a,{b}}"), Str("{{a},b}"), Str("{a{},b}")}

SpanFamily == PlainSpanPatterns \cup MixedSpanPatterns

SpanCandidates ==
    SpanFamily \cup {s \o <<"\n">> : s \in PlainSpanPatterns}
        \cup {Str("abc"), Str("a"), Str("b"), Str("1"), <<>>, Str("aa"), Str("{abc"),
              Str("abc}"), Str("{a}a"), Str("{a}b"), Str("a{a}"), Str("b{a}"), Str("{b}"),
              Str("{b"), Str("a{}"), Str("{a")}

InitSpan == InitGlob(SpanFamily, {<<>>})

NextSpan == GlobNext(MainThread, SpanCandidates)

SpecSpan == InitSpan /\ [][NextSpan]_vars

----------------------------------------------------------------------------
(* Inputs of the matcher: braces mixed with escapes, brackets and ranges *)

MixAlphabet == {"{", "}", ",", "[", "]", "/", "\\"}

MaxMixLen == 4

MixPatterns ==
    SeqsUpTo(MixAlphabet, MaxMixLen)
        \cup {Str("[/{]}"), Str("{a,[/{]}}"), Str("{[/}]"), Str("{1..3}"),
              Str("{a,{1..3}}"), Str("{{1..3}}"), Str("[{]{1..3}}"), Str("{\\{,\\}}"),
              Str("{[!}],a}"), Str("{,[/}]")}

MixCandidates == {<<>>, Str("a")}

InitMix == InitGlob(MixPatterns, {<<>>})

NextMix == GlobNext(MainThread, MixCandidates)

SpecMix == InitMix /\ [][NextMix]_vars

----------------------------------------------------------------------------
(* What the contract says of a candidate *)

\* What the contract says of a candidate of a numeric-range token.
RefIsInteger(s) ==
    LET d == IF At(s, 1) \in {"+", "-"} THEN 2 ELSE 1
    IN  d <= Len(s) /\ \A i \in d..Len(s) : s[i] \in Digits

RefZeroPadded(s) == At(s, 1) = "0" /\ Len(s) > 1

RECURSIVE RefDigitsValue(_)
RefDigitsValue(s) ==
    IF s = <<>> THEN 0
    ELSE 10 * RefDigitsValue(SubSeq(s, 1, Len(s) - 1)) + DigitVal(s[Len(s)])

RefIntValue(s) ==
    IF s[1] = "-" THEN 0 - RefDigitsValue(Tail(s))
    ELSE IF s[1] = "+" THEN RefDigitsValue(Tail(s))
    ELSE RefDigitsValue(s)

\* The bounds of the pattern "{lo..hi}".
RefLower(pattern) ==
    RefIntValue(SubSeq(pattern, 2, (CHOOSE i \in 1..Len(pattern) :
                                       pattern[i] = "." /\ pattern[i + 1] = ".") - 1))

RefUpper(pattern) ==
    RefIntValue(SubSeq(pattern, 2 + (CHOOSE i \in 1..Len(pattern) :
                                        pattern[i] = "." /\ pattern[i + 1] = "."),
                       Len(pattern) - 1))

RefInRange(pattern, s) ==
    /\ RefIsInteger(s)
    /\ ~RefZeroPadded(s)
    /\ RefLower(pattern) <= RefIntValue(s)
    /\ RefIntValue(s) <= RefUpper(pattern)

\* Every expression a call has compiled lies in the subset the tree parser reads.
TranslationsInSubset == \A i \in 1..Len(compile_log) : compile_log[i].sup

----------------------------------------------------------------------------
(* Claims on ec_glob *)

\* The step is the return of the main thread's call from its match.
MatchReturns == gl[MainThread].pc = "match" /\ gl'[MainThread].returned

\* C4: with a pattern of one numeric-range token {lo..hi}, a call returns MATCH
\* exactly for the candidates that are optionally signed decimal integers, not
\* zero-padded, with lo <= value <= hi, and NO_MATCH for every other candidate.
C4_RangeTokenMatches ==
    [][MatchReturns =>
          gl'[MainThread].ret =
              IF RefInRange(gl[MainThread].pattern, gl[MainThread].string) THEN 0
              ELSE EC_GLOB_NOMATCH]_vars

\* The step is the main thread's translation and compilation, with success.
CompileSucceeds == gl[MainThread].pc = "compile" /\ gl'[MainThread].pc = "store"

\* C5: the range check loop reads for the i-th entry of nums the i-th capturing
\* group of the expression; that group is the one emitted for the i-th
\* {int..int} token, whatever tokens precede it.
C5_RangeGroupAligned ==
    gl[MainThread].pc = "store" =>
        LET st   == Translate(gl[MainThread].pattern)
            code == pcre2_compile(gl[MainThread].re)
        IN  \A i \in 1..Len(st.nums) :
                i <= Len(code.gpos) /\ code.gpos[i] = st.numat[i]

\* C6: when the braces of the pattern are not balanced, the translation emits no
\* group and no nums entry, and every '{', '}' and ',' is a literal: the pattern
\* matches the candidate equal to it and no other.
C6_UnbalancedLiteral ==
    [][/\ CompileSucceeds =>
             /\ gl'[MainThread].nums = <<>>
             /\ \A i \in 1..Len(gl'[MainThread].re) : gl'[MainThread].re[i] # "("
       /\ MatchReturns =>
             (gl'[MainThread].ret = 0 <=> gl[MainThread].string = gl[MainThread].pattern)
      ]_vars

\* The tokens of a wildcard pattern from index i on: "/**/" where it stands,
\* else "**", else the single character.
RECURSIVE RefWildTokens(_, _)
RefWildTokens(s, i) ==
    IF i > Len(s) THEN <<>>
    ELSE IF SubSeq(s, i, Min({i + 3, Len(s)})) = Str("/**/")
    THEN <<"/**/">> \o RefWildTokens(s, i + 4)
    ELSE IF s[i] = "*" /\ At(s, i + 1) = "*" THEN <<"**">> \o RefWildTokens(s, i + 2)
    ELSE <<s[i]>> \o RefWildTokens(s, i + 1)

RECURSIVE RefWild(_, _, _, _)
\* The tokens k.. match the candidate from index i to its end.
RefWild(toks, k, s, i) ==
    IF k > Len(toks) THEN i = Len(s) + 1
    ELSE IF toks[k] = "?"
    THEN i <= Len(s) /\ s[i] # "/" /\ RefWild(toks, k + 1, s, i + 1)
    ELSE IF toks[k] = "*"
    THEN \E j \in i..Len(s) + 1 :
             (\A x \in i..j - 1 : s[x] # "/") /\ RefWild(toks, k + 1, s, j)
    ELSE IF toks[k] = "**"
    THEN \E j \in i..Len(s) + 1 : RefWild(toks, k + 1, s, j)
    ELSE IF toks[k] = "/**/"
    THEN /\ At(s, i) = "/"
         /\ \/ RefWild(toks, k + 1, s, i + 1)
            \/ \E j \in i + 1..Len(s) : s[j] = "/" /\ RefWild(toks, k + 1, s, j + 1)
    ELSE At(s, i) = toks[k] /\ i <= Len(s) /\ RefWild(toks, k + 1, s, i + 1)

\* C7: '?' matches one character other than '/', '*' any run without '/', '**'
\* any run of any characters, "/**/" a single '/' or '/', any text, '/'.
C7_WildcardSeparators ==
    [][MatchReturns =>
          gl'[MainThread].ret =
              IF RefWild(RefWildTokens(gl[MainThread].pattern, 1), 1,
                         gl[MainThread].string, 1)
              THEN 0 ELSE EC_GLOB_NOMATCH]_vars

\* The step is the fetch of a call of the main thread made after the first
\* compilation of its pattern succeeded.
LaterFetch ==
    /\ gl[MainThread].pc = "idle" /\ gl'[MainThread].pc # "idle"
    /\ compile_log # <<>> /\ compile_log[1].ok

\* The call takes the code and nums of the first compilation from the cache, and
\* its result is what they give for the candidate.
ServedByFirstCompilation ==
    /\ LaterFetch =>
          /\ gl'[MainThread].cached
          /\ gl'[MainThread].pc = "match"
          /\ gl'[MainThread].re = compile_log[1].re
          /\ gl'[MainThread].nums = compile_log[1].nums
          /\ compile_log' = compile_log
    /\ (MatchReturns /\ gl[MainThread].cached) =>
          gl'[MainThread].ret \in MatchResults(compile_log[1].re, compile_log[1].nums,
                                               gl[MainThread].string)

C9_CompiledAtMostOnce ==
    \A i, j \in 1..Len(compile_log) :
        i # j => compile_log[i].pattern # compile_log[j].pattern

\* C9: a call whose fetch comes after a store of code for its pattern does not
\* translate or compile; only calls that fetched before that store do.
C9_NoCompileAfterStore ==
    [][\A t \in Threads :
          (/\ gl[t].pc = "idle"
           /\ gl[t].pattern \in DOMAIN glob_map
           /\ glob_map[gl[t].pattern].first # NULL
           /\ gl'[t].pc # "idle")
              => gl'[t].pc = "match" /\ gl'[t].cached /\ compile_log' = compile_log]_vars

\* C9 witness: both threads have compiled the same pattern, and a later call of
\* one of them has been served by the cache.
C9_Witness ==
    /\ Len(compile_log) = 2
    /\ compile_log[1].pattern = compile_log[2].pattern
    /\ \E t \in Threads : gl[t].cached /\ gl[t].returned

----------------------------------------------------------------------------
(* ini.c: the file cache and the steps of an ini_parse call                 *)
(*                                                                          *)
(* A critical section of a caller (lock, map access, unlock) is one step;   *)
(* the event handler holds the mutex over several steps, because the        *)
(* callback it calls can itself run ini_parse on the handler's thread.      *)

RECURSIVE ParseFrom(_, _, _, _, _, _, _, _)
RECURSIVE ParseNext(_, _, _, _, _, _, _)
\* ini_parse_file run to its return on text f, the handler answering ok to each
\* call: the error it returns and the number n of handler calls made; hangs when
\* the line loop never ends.
ParseFrom(f, at, ln, sec, prev, err, ok, n) ==
    IF at > Len(f) THEN [error |-> err, hangs |-> FALSE, calls |-> n]
    ELSE ParseNext(f, at, ln, ok, n, strchr(f, at, "\n"),
                   ProcessLine(LineAt(f, at), NextLineno(ln), sec, prev, err, ok))

\* The line loop after the pass r over the line at index at.
ParseNext(f, at, ln, ok, n, nextLine, r) ==
    IF r.cont THEN [error |-> r.error, hangs |-> TRUE, calls |-> n]
    ELSE IF nextLine = 0
    THEN [error |-> r.error, hangs |-> FALSE, calls |-> n + Len(r.call)]
    ELSE ParseFrom(f, nextLine + 1, NextLineno(ln), r.section, r.prev_name, r.error,
                   ok, n + Len(r.call))

ini_parse_file(f, ok) == ParseFrom(f, 1, 0, <<>>, <<>>, 0, ok, 0)

CacheEntry(filename, data, live) == [filename |-> filename, data |-> data, live |-> live]

\* (*_map)[filename]: the pointer held for filename, NULL when absent.
FileMapAt(map, filename) == IF filename \in DOMAIN map THEN map[filename] ELSE 0

FileMapWith(map, filename, entry) ==
    [k \in DOMAIN map \cup {filename} |-> IF k = filename THEN entry ELSE map[k]]

\* A mutex of the default type: a thread that holds it waits for itself.
pthread_mutex_lock_normal(m, th) ==
    [ok |-> m.count = 0, m |-> [owner |-> th, count |-> 1]]

\* pthread_mutex_lock on the PTHREAD_MUTEX_RECURSIVE _mutex by thread th: ok is
\* FALSE when th has to wait; m is the mutex once th has it.
pthread_mutex_lock(m, th) ==
    [ok |-> m.count = 0 \/ m.owner = th, m |-> [owner |-> th, count |-> m.count + 1]]

pthread_mutex_unlock(m) ==
    IF m.count <= 1 THEN Unlocked ELSE [m EXCEPT !.count = @ - 1]

\* The mutex after a critical section of th that began at m.
AfterSection(m, th) == pthread_mutex_unlock(pthread_mutex_lock(m, th).m)

\* The return of a call with result ret: its locals are gone, the caller holds
\* ret.
ReturnFromParse(l, ret) ==
    IniLocal("idle", l.filename, 0, <<>>, FALSE, ret, FALSE, FALSE, l.ncalls)

\* A call that read the file in full, and during which the file did not change,
\* has returned.
FreshAfter(l) ==
    IF l.readFull /\ ~l.dirty THEN [fresh EXCEPT ![l.filename] = TRUE] ELSE fresh

MaxEntries == 2

\* The entries created so far and those the calls in progress can still create.
EntriesInSight ==
    Len(entries) + Cardinality({t \in Callers : ip[t].pc \in {"read", "parse", "store"}})

\* Entry of ini_parse(filename) and ini_data_for_file(filename, NULL) up to its
\* unlock: the entry pointer is read from the map.  The handler's thread enters
\* from the invalidation callback.
IniFetchEntry(t) ==
    /\ ip[t].pc = "idle"
    /\ FileMapAt(file_map, ip[t].filename) = 0 => EntriesInSight < MaxEntries
    /\ IF t = HandlerThread THEN hd.pc = "callback" ELSE TRUE
    /\ pthread_mutex_lock(mutex, t).ok
    /\ mutex' = AfterSection(mutex, t)
    /\ hd' = IF t = HandlerThread THEN [hd EXCEPT !.pc = "in_callback"] ELSE hd
    /\ LET entry == FileMapAt(file_map, ip[t].filename)
       IN  /\ file_map' = FileMapWith(file_map, ip[t].filename, entry)
           /\ ip' = [ip EXCEPT ![t] =
                        IniLocal(IF entry = 0 THEN "read" ELSE "deref", ip[t].filename,
                                 entry, <<>>, FALSE, 0, FALSE, FALSE, 0)]
    /\ UNCHANGED <<iniVars, globVars, disk, entries, pending, fresh, callback,
                   invalidated>>

\* The bytes a read through a pointer to a deleted object can find.
StaleBytes == {<<>>, Str("a")}

\* "return entry->data" after the unlock; the entry may have been deleted.
IniFetchData(t) ==
    /\ ip[t].pc = "deref"
    /\ \E data \in IF entries[ip[t].entry].live THEN {entries[ip[t].entry].data}
                   ELSE StaleBytes :
          ip' = [ip EXCEPT ![t].pc = "parse", ![t].data = data, ![t].wasCached = TRUE]
    /\ UNCHANGED <<iniVars, globVars, disk, file_map, entries, pending, fresh, mutex,
                   hd, callback, invalidated>>

\* What read() can return for a file of size n: -1, or a number of bytes up to n.
ReadResults(n) == {-1} \cup (0..n)

\* ini_data_from_file: open, fstat, malloc, read.  Only a failure of one of them
\* makes the call return -1; the bytes read are terminated at actLen.
IniRead(t) ==
    /\ ip[t].pc = "read"
    /\ LET f == disk[ip[t].filename]
       IN  \E actLen \in ReadResults(Len(f.bytes)) :
              IF ~f.exists \/ actLen < 0
              THEN ip' = [ip EXCEPT ![t] = ReturnFromParse(ip[t], -1)]
              ELSE ip' = [ip EXCEPT ![t].pc = "parse",
                                    ![t].data = Take(f.bytes, actLen),
                                    ![t].readFull = actLen = Len(f.bytes)]
    /\ UNCHANGED <<iniVars, globVars, disk, file_map, entries, pending, fresh, mutex,
                   hd, callback, invalidated>>

\* The call after ini_parse_file returned r.
AfterParse(l, r) ==
    IF r.hangs THEN [l EXCEPT !.pc = "hung"]
    ELSE IF r.error = 0 /\ ~l.wasCached THEN [l EXCEPT !.pc = "store", !.ncalls = r.calls]
    ELSE ReturnFromParse([l EXCEPT !.ncalls = r.calls], r.error)

\* The bytes ini_parse_file finds at data: those handed to it, or, when they
\* came from an entry that has been deleted since, whatever stands there now.
BytesRead(l) ==
    IF l.wasCached /\ ~entries[l.entry].live THEN StaleBytes \cup {l.data}
    ELSE {l.data}

\* ini_parse_file on the bytes, then the choice to store them.
IniParse(t) ==
    /\ ip[t].pc = "parse"
    /\ \E ok \in BOOLEAN, bytes \in BytesRead(ip[t]) :
          /\ ip' = [ip EXCEPT ![t] = AfterParse(ip[t], ini_parse_file(bytes, ok))]
          /\ fresh' = IF ip'[t].pc = "idle" THEN FreshAfter(ip[t]) ELSE fresh
    /\ UNCHANGED <<iniVars, globVars, disk, file_map, entries, pending, mutex, hd,
                   callback, invalidated>>

\* ini_data_for_file(filename, data): a new entry with its watch, put in the map.
IniStore(t) ==
    /\ ip[t].pc = "store"
    /\ pthread_mutex_lock(mutex, t).ok
    /\ mutex' = AfterSection(mutex, t)
    /\ entries' = Append(entries, CacheEntry(ip[t].filename, ip[t].data, TRUE))
    /\ file_map' = FileMapWith(file_map, ip[t].filename, Len(entries) + 1)
    /\ ip' = [ip EXCEPT ![t] = ReturnFromParse(ip[t], 0)]
    /\ fresh' = FreshAfter(ip[t])
    /\ UNCHANGED <<iniVars, globVars, disk, pending, hd, callback, invalidated>>

\* The file contents f can have.
FileTexts == {Str("a="), Str("a")}

\* Another program writes or deletes file f: every watch on it gets an event.
Modify(f) ==
    /\ \E new \in {[exists |-> TRUE, bytes |-> b] : b \in FileTexts} \cup {NoFile} :
          new # disk[f] /\ disk' = [disk EXCEPT ![f] = new]
    /\ pending' = pending \cup
                      {e \in 1..Len(entries) : entries[e].live /\ entries[e].filename = f}
    /\ fresh' = [fresh EXCEPT ![f] = FALSE]
    /\ ip' = [t \in Callers |->
                 IF ip[t].filename = f /\ ip[t].pc # "idle"
                 THEN [ip[t] EXCEPT !.dirty = TRUE] ELSE ip[t]]
    /\ UNCHANGED <<iniVars, globVars, file_map, entries, mutex, hd, callback,
                   invalidated>>

\* The event handler of entry e's dispatch source, from its lock to the call of
\* ini_parse_cache_invalidated: the map slot of the entry's filename is set to
\* NULL, then the callback, if one is set, is called with the filename.  A
\* callback either returns at once or calls ini_parse.  The handler runs on a
\* thread of its own, which holds nothing when it starts.
HandlerEnter(e) ==
    /\ e \in pending
    /\ hd.pc = "idle"
    /\ pthread_mutex_lock(mutex, HandlerThread).ok
    /\ mutex' = pthread_mutex_lock(mutex, HandlerThread).m
    /\ file_map' = FileMapWith(file_map, entries[e].filename, 0)
    /\ pending' = pending \ {e}
    /\ invalidated' = IF callback THEN Append(invalidated, entries[e].filename)
                      ELSE invalidated
    /\ \E reenters \in BOOLEAN :
          /\ reenters => callback /\ EntriesInSight < MaxEntries
          /\ hd' = [pc |-> IF reenters THEN "callback" ELSE "delete", e |-> e]
    /\ UNCHANGED <<iniVars, globVars, disk, entries, ip, fresh, callback>>

\* The rest of the event handler: "delete entry" (the destructor frees the bytes,
\* cancels the source, which drops an event that came in meanwhile, and closes
\* the descriptor), then the unlock.
HandlerReturn ==
    /\ hd.pc = "delete" \/ (hd.pc = "in_callback" /\ ip[HandlerThread].pc = "idle")
    /\ entries' = [entries EXCEPT ![hd.e].live = FALSE]
    /\ pending' = pending \ {hd.e}
    /\ mutex' = pthread_mutex_unlock(mutex)
    /\ hd' = NoHandler
    /\ UNCHANGED <<iniVars, globVars, disk, file_map, ip, fresh, callback, invalidated>>

InitFile ==
    /\ IniIdle
    /\ GlobIdle
    /\ disk \in [Filenames -> {[exists |-> TRUE, bytes |-> b] : b \in FileTexts}
                                  \cup {NoFile}]
    /\ file_map = [f \in {} |-> 0]
    /\ entries = <<>>
    /\ pending = {}
    /\ ip = [t \in Callers |->
                IniLocal("idle", "f", 0, <<>>, FALSE, 0, FALSE, FALSE, 0)]
    /\ fresh = [f \in Filenames |-> FALSE]
    /\ mutex = Unlocked
    /\ hd = NoHandler
    /\ callback \in BOOLEAN
    /\ invalidated = <<>>

NextFile ==
    \/ \E t \in Callers :
          IniFetchEntry(t) \/ IniFetchData(t) \/ IniRead(t) \/ IniParse(t) \/ IniStore(t)
    \/ \E f \in Filenames : Modify(f)
    \/ \E e \in 1..Len(entries) : HandlerEnter(e)
    \/ HandlerReturn

SpecFile == InitFile /\ [][NextFile]_vars

\* C10: once a finished ini_parse call has read f from disk in full, and as long
\* as f has not changed, a later call finds the bytes in the cache and does not
\* read the file, whatever the first call's parse result was.
C10_LaterCallsUseCache ==
    [][\A t \in Threads :
          (ip[t].pc = "idle" /\ ip'[t].pc # "idle" /\ fresh[ip[t].filename])
              => ip'[t].pc = "deref"]_vars

\* The live entries created for filename f.
LiveEntries(f) == {e \in 1..Len(entries) : entries[e].live /\ entries[e].filename = f}

\* C11: in every reachable state there is at most one live entry per filename,
\* under any interleaving of concurrent ini_parse calls.
C11_OneLiveEntryPerFile == \A f \in Filenames : Cardinality(LiveEntries(f)) <= 1

\* The step in which the event handler of an entry begins and calls the callback.
CallbackInvoked == Len(invalidated') > Len(invalidated)

\* The step in which thread t returns from a call that began after an invalidation
\* of its file, missed the cache, read the whole file, the file not changing
\* during the call.
ReturnsAfterReread(t) ==
    /\ ip[t].pc \in {"parse", "store"}
    /\ ip'[t].pc = "idle"
    /\ ~ip[t].wasCached /\ ip[t].readFull /\ ~ip[t].dirty
    /\ \E e \in 1..Len(entries) :
          ~entries[e].live /\ entries[e].filename = ip[t].filename

\* C12: the callback is called only for a filename whose cached entry is the one
\* being invalidated, and the ini_parse call that reads the file again after an
\* invalidation leaves a live entry (with its watch) in the cache.
C12_InvalidationRearms ==
    [][/\ CallbackInvoked => FileMapAt(file_map, entries[hd'.e].filename) = hd'.e
       /\ \A t \in Callers :
             ReturnsAfterReread(t) =>
                 FileMapAt(file_map', ip[t].filename) \in LiveEntries(ip[t].filename)']_vars

\* C13: the handler holds the mutex, once, from its lock to its unlock; its
\* callback's calls into the cache (the fetch, the store) get the mutex without
\* waiting; with no handler in progress the mutex is free at the end of every step.
C13_HandlerReentersWithoutWaiting ==
    /\ hd.pc = "idle" => mutex = Unlocked
    /\ hd.pc # "idle" => mutex = [owner |-> HandlerThread, count |-> 1]
    /\ hd.pc = "callback" => pthread_mutex_lock(mutex, HandlerThread).ok
    /\ (hd.pc = "in_callback" /\ ip[HandlerThread].pc = "store")
           => pthread_mutex_lock(mutex, HandlerThread).ok

\* C13 witness: inside the handler, the callback's ini_parse has fetched, read,
\* parsed and stored a new entry, and returned.
C13_Witness ==
    /\ hd.pc = "in_callback"
    /\ ip[HandlerThread].pc = "idle"
    /\ FileMapAt(file_map, ip[HandlerThread].filename) > hd.e

\* The step in which thread t returns from a call whose read of the file did not
\* deliver the whole file.
ReturnsAfterFailedRead(t) ==
    /\ ip[t].pc \in {"read", "parse", "store"}
    /\ ip'[t].pc = "idle"
    /\ ~ip[t].wasCached /\ ~ip[t].readFull

\* C14: a call whose read failed or came short returns -1, has made no handler
\* call and has put no entry in the cache.
C14_FailedReadNotCached ==
    [][\A t \in Callers :
          ReturnsAfterFailedRead(t) =>
              /\ ip'[t].ret = -1
              /\ ip'[t].ncalls = 0
              /\ entries' = entries /\ file_map' = file_map]_vars

\* C15: no ec_glob call writes past the end of l_pattern or of pcre_str, for
\* patterns of any length.
C15_WritesStayInBuffers == \A t \in Threads : gl[t].pc # "overrun"

----------------------------------------------------------------------------
(* Claims on over-long lines and on the separator of a name/value line *)

\* The line the parser is about to process, trimmed.
CurrentLine == RefTrim(RefLineFrom(file, p))

\* A section line whose name, the text between '[' and the last ']' before a
\* comment start, is longer than MAX_SECTION_NAME.
RefOverlongSection(t) ==
    /\ RefIsSection(t)
    /\ LET ks == {i \in 2..Len(RefBody(t)) : RefBody(t)[i] = "]"}
       IN  ks # {} /\ Max(ks) - 2 > MAX_SECTION_NAME

\* A name/value line whose name or value is longer than its maximum.
RefOverlongPair(t) ==
    /\ RefWellFormedPair(t)
    /\ \/ Len(RefName(RefBody(t))) > MAX_PROPERTY_NAME
       \/ Len(RefValue(RefBody(t))) > MAX_PROPERTY_VALUE

AtOverlongLine ==
    /\ ipc = "loop"
    /\ p <= Len(file)
    /\ RefOverlongSection(CurrentLine) \/ RefOverlongPair(CurrentLine)

C16_WitnessPair ==
    /\ AtOverlongLine
    /\ RefOverlongPair(CurrentLine)
    /\ Len(RefValue(RefBody(CurrentLine))) > MAX_PROPERTY_VALUE
    /\ lineno = 1

\* The comment starts of t: the indices of a ';' or '#' that follows whitespace.
RefCommentStarts(t) ==
    {i \in 2..Len(t) : t[i] \in {";", "#"} /\ isspace(t[i - 1])}

\* The value of t for the separator at index k: the text from k + 1 up to the
\* first comment start after k, trimmed.
RefValueAfter(t, k) ==
    LET cs == {i \in RefCommentStarts(t) : i > k}
    IN  RefTrim(SubSeq(t, k + 1, IF cs = {} THEN Len(t) ELSE Min(cs) - 1))

\* The call the contract asks for on the line t: name and value around the
\* separator of the text before the first comment start.
RefDelivery(t) ==
    [name |-> RefName(RefBody(t)), value |-> RefValueAfter(t, RefSep(RefBody(t)))]

\* t is a name/value line with a separator whose name and value are within
\* their maxima.
RefDeliverable(t) ==
    /\ RefWellFormedPair(t)
    /\ Len(RefDelivery(t).name) <= MAX_PROPERTY_NAME
    /\ Len(RefDelivery(t).value) <= MAX_PROPERTY_VALUE

\* The pass made one handler call, with the name and value of RefDelivery.
DeliveredAsSeparated ==
    /\ Len(calls') = Len(calls) + 1
    /\ calls'[Len(calls')].name = RefDelivery(CurrentLine).name
    /\ calls'[Len(calls')].value = RefDelivery(CurrentLine).value

\* The pass made no handler call and recorded the line as the first error, if
\* none was recorded before.
RecordedAsSyntaxError ==
    /\ calls' = calls
    /\ error' = IF error = 0 THEN lineno' ELSE error

\* C20: a name/value line is delivered with the name before and the value after
\* its separator: the first '=' before any comment start, or without one the
\* first ':' before any comment start; the value ends at the first comment start
\* after the separator; a line without a separator before a comment start is a
\* syntax error.
C20_SeparatorAndValue ==
    [][(ipc = "loop" /\ p <= Len(file)) =>
           /\ RefDeliverable(CurrentLine) => DeliveredAsSeparated
           /\ (RefIsPair(CurrentLine) /\ RefSyntaxError(CurrentLine))
                  => RecordedAsSyntaxError]_vars

----------------------------------------------------------------------------
(* Claims on bracket runs, alternations and literal brace spans *)

\* The step is a return of the main thread's call, from its compilation or from
\* its match.
CallReturns ==
    gl[MainThread].pc \in {"compile", "match"} /\ gl'[MainThread].pc = "idle"

\* C17: a bracket run that holds an unescaped '/' before its ']' (or before the
\* end of the pattern, when it has no ']') is literal text: a pattern made of
\* such a run matches the candidate equal to it and no other, whatever the run
\* holds.
C17_SlashBracketLiteral ==
    [][CallReturns =>
          gl'[MainThread].ret =
              IF gl[MainThread].string = gl[MainThread].pattern THEN 0
              ELSE EC_GLOB_NOMATCH]_vars

\* The brace nesting level of s after its first n characters.
RefDepth(s, n) == RefCount(s, n, "{") - RefCount(s, n, "}")

\* The index of the '}' that closes the '{' at s[1].
RefClose(s) == Min({m \in 2..Len(s) : RefDepth(s, m) = 0})

\* The alternatives of the group text s: its parts between the commas that are
\* not inside a nested pair of braces.
RefParts(s) ==
    LET cs == {i \in 1..Len(s) : s[i] = "," /\ RefDepth(s, i) = 0}
    IN  {SubSeq(s, a + 1, Min({b \in cs \cup {Len(s) + 1} : b > a}) - 1) :
            a \in cs \cup {0}}

RefHasComma(s) == \E i \in 1..Len(s) : s[i] = ","

RECURSIVE RefExpand(_)
\* The candidates a pattern of letters, commas and balanced braces stands for:
\* a span with a comma stands for each of its alternatives, a span without any
\* comma for itself with its braces, a comma outside every span for itself.
RefExpand(s) ==
    IF s = <<>> THEN {<<>>}
    ELSE IF s[1] # "{" THEN {<<s[1]>> \o r : r \in RefExpand(Tail(s))}
    ELSE LET inner == SubSeq(s, 2, RefClose(s) - 1)
             heads == IF RefHasComma(inner)
                      THEN UNION {RefExpand(part) : part \in RefParts(inner)}
                      ELSE {SubSeq(s, 1, RefClose(s))}
         IN  {h \o r : h \in heads, r \in RefExpand(SubSeq(s, RefClose(s) + 1, Len(s)))}

\* The commas of s at a brace nesting level above 0, and those at level 0.
RefInnerCommas(s) == {i \in 1..Len(s) : s[i] = "," /\ RefDepth(s, i) > 0}

RefOuterCommas(s) == {i \in 1..Len(s) : s[i] = "," /\ RefDepth(s, i) = 0}

\* C18: in a pattern with paired braces, each ',' at a brace nesting level above
\* 0 is written as the alternation bar and each ',' at level 0 as a literal
\* comma, and the pattern matches a candidate exactly when the candidate is one
\* of the texts its alternatives stand for: "{a,b,c}" matches "b" and neither "d"
\* nor "a,b,c".
C18_CommaSeparatesAlternatives ==
    [][/\ CompileSucceeds =>
             /\ RefCount(gl'[MainThread].re, Len(gl'[MainThread].re), "|")
                    = Cardinality(RefInnerCommas(gl[MainThread].pattern))
             /\ RefCount(gl'[MainThread].re, Len(gl'[MainThread].re), ",")
                    = Cardinality(RefOuterCommas(gl[MainThread].pattern))
       /\ CallReturns =>
             gl'[MainThread].ret =
                 IF gl[MainThread].string \in RefExpand(gl[MainThread].pattern) THEN 0
                 ELSE EC_GLOB_NOMATCH]_vars

\* C19: with paired braces, a span of braces that holds no comma and is not of
\* the shape {int..int} is matched with its braces as literals: no nums entry is
\* made, a pattern whose spans are all of this kind gets no group at all, and
\* the pattern matches exactly the texts it stands for with these braces kept:
\* "{abc}" matches "{abc}" and nothing else.
C19_SingleSpanLiteral ==
    [][/\ CompileSucceeds =>
             /\ gl'[MainThread].nums = <<>>
             /\ ~RefHasComma(gl[MainThread].pattern) =>
                    RefCount(gl'[MainThread].re, Len(gl'[MainThread].re), "(") = 0
       /\ CallReturns =>
             gl'[MainThread].ret =
                 IF gl[MainThread].string \in RefExpand(gl[MainThread].pattern) THEN 0
                 ELSE EC_GLOB_NOMATCH]_vars

----------------------------------------------------------------------------
(* Claims on section headers *)

\* The ']' of the header t that can close it: those before its comment start
\* that no backslash precedes.
RefClosers(t) ==
    {i \in 2..Len(RefBody(t)) : RefBody(t)[i] = "]" /\ RefBody(t)[i - 1] # "\\"}

\* The section name of the header t: the text from its '[' to its last closer.
RefSectionName(t) == SubSeq(RefBody(t), 2, Max(RefClosers(t)) - 1)

\* The pass made a handler call.
PassCalls == Len(calls') = Len(calls) + 1

\* C21: on a line that begins with '[', the section becomes the text between the
\* '[' and the last ']' before a comment start that no backslash precedes (when
\* it is within MAX_SECTION_NAME); without such a ']' the line is a syntax error
\* and the section stays; a line that is no header leaves the section as it is,
\* and every handler call carries the section of the last accepted header.
C21_SectionHeader ==
    [][(ipc = "loop" /\ p <= Len(file)) =>
           /\ RefIsSection(CurrentLine) =>
                  IF RefClosers(CurrentLine) = {}
                  THEN RecordedAsSyntaxError /\ section' = section
                  ELSE Len(RefSectionName(CurrentLine)) <= MAX_SECTION_NAME
                           => section' = RefSectionName(CurrentLine) /\ calls' = calls
           /\ ~RefIsSection(CurrentLine) => section' = section
           /\ PassCalls => calls'[Len(calls')].section = section]_vars

----------------------------------------------------------------------------
(* Claims on the brace level of the translation *)

RECURSIVE BraceLevels(_, _)
\* The values of brace_level from the translation state st on: before each pass
\* of the loop and where the loop is left.
BraceLevels(st, paired) ==
    IF st.ret # 0 \/ st.overrun \/ st.c > Len(st.lp) THEN <<st.brace_level>>
    ELSE <<st.brace_level>> \o BraceLevels(TranslateChar(st, paired), paired)

\* The values of brace_level during the translation of pattern.
BraceLevelsOf(pattern) ==
    BraceLevels(Translation(1, pattern, <<>>, 0, FALSE, <<>>, <<>>, 0, FALSE),
                are_braces_paired(pattern))

\* The passes of the loop that raise, or lower, brace_level: those that write
\* the "(?:" of a '{', or the ')' of a '}'.
Risings(levels) == {i \in 1..Len(levels) - 1 : levels[i + 1] > levels[i]}

Fallings(levels) == {i \in 1..Len(levels) - 1 : levels[i + 1] < levels[i]}

\* The translation of pattern runs to the end of the pattern.
TranslationCompletes(pattern) ==
    Translate(pattern).ret = 0 /\ ~Translate(pattern).overrun

\* Lv are the brace levels of a pattern with paired braces: never below 0, and
\* when the end of the pattern is reached the level is 0 and as many groups were
\* opened for '{' as closed for '}'.
LevelsBalanced(pattern, Lv) ==
    /\ \A i \in 1..Len(Lv) : Lv[i] >= 0
    /\ TranslationCompletes(pattern) =>
           /\ Lv[Len(Lv)] = 0
           /\ Cardinality(Risings(Lv)) = Cardinality(Fallings(Lv))

\* C22: while a pattern whose braces are paired is translated, brace_level is
\* never negative, it is 0 at the end of the pattern, and as many "(?:" are
\* emitted for '{' as ')' for '}'.
C22_BraceLevelBalanced ==
    \A t \in Threads :
        (gl[t].pc = "compile" /\ are_braces_paired(gl[t].pattern))
            => LevelsBalanced(gl[t].pattern, BraceLevelsOf(gl[t].pattern))

----------------------------------------------------------------------------
(* Claims on the reads of the range check loop *)

\* The offsets ov of a group lie inside the candidate.
InsideCandidate(ov, string) ==
    ov # PCRE2_UNSET /\ 0 <= ov[1] /\ ov[1] <= ov[2] /\ ov[2] <= Len(string)

\* The loop goes on after the entry pair, read through the offsets ov: the
\* captured text does not begin with '0' and its value is within the bounds.
EntryPasses(pair, ov, string) ==
    /\ At(string, ov[1] + 1) # "0"
    /\ ec_atoi(SubSeq(string, ov[1] + 1, ov[2])) >= pair.num1
    /\ ec_atoi(SubSeq(string, ov[1] + 1, ov[2])) <= pair.num2

RECURSIVE ReadsInside(_, _, _, _)
\* Every entry the range check loop reads from entry i on, up to the entry at
\* which it breaks, is read through offsets inside the candidate.
ReadsInside(nums, i, ovector, string) ==
    IF i > Len(nums) THEN TRUE
    ELSE /\ i <= Len(ovector)
         /\ InsideCandidate(ovector[i], string)
         /\ EntryPasses(nums[i], ovector[i], string)
                => ReadsInside(nums, i + 1, ovector, string)

\* The reads of the range check loop after the match m of the candidate.
MatchedReadsInside(nums, m, string) ==
    m.rc >= 0 => ReadsInside(nums, 1, m.ovector, string)

\* C23: when the compiled expression matches the candidate, every captured
\* substring the range check loop reads lies inside the candidate: no offset of
\* a group that took no part in the match is used.
C23_RangeReadsInsideCandidate ==
    \A t \in Threads :
        gl[t].pc = "match" =>
            MatchedReadsInside(gl[t].nums,
                               pcre2_match(pcre2_compile(gl[t].re), gl[t].string),
                               gl[t].string)

----------------------------------------------------------------------------
(* Claims on the lifetime of cache entries and on stale bytes *)

\* The call of t is served from the cache: it is about to read entry->data, or
\* ini_parse_file is reading the bytes of the entry.
UsesEntry(t) == ip[t].pc = "deref" \/ (ip[t].pc = "parse" /\ ip[t].wasCached)

\* C24: while a call served from the cache dereferences the entry it fetched, or
\* parses the bytes of that entry, the entry has not been deleted by the
\* invalidation handler.
C24_NoUseAfterDelete ==
    \A t \in Callers : UsesEntry(t) => entries[ip[t].entry].live

\* The cache holds an entry for f and no event of a watch on f waits for its
\* handler.
CachedAndQuiet(f) ==
    /\ FileMapAt(file_map, f) # 0
    /\ entries[FileMapAt(file_map, f)].live
    /\ \A e \in pending : entries[e].filename # f

\* C25: whenever the cache holds an entry for f and no change notification for
\* f is undelivered, the bytes of the entry are the contents of f, also when f
\* was modified between the read of the bytes and the store of the entry.
C25_CachedBytesCurrent ==
    \A f \in Filenames :
        CachedAndQuiet(f) =>
            /\ disk[f].exists
            /\ entries[FileMapAt(file_map, f)].data = disk[f].bytes

============================================================================
